---- MODULE Spec2Model ----
(***************************************************************************)
(* Model of src/stock_price_and_earnongs_and_pe_v3_server.py.              *)
(*                                                                         *)
(* Three specifications:                                                   *)
(*   Spec     get_sec_eps_final (lines 19-110): period classification, Q4  *)
(*            derivation, duplicate resolution, split adjustment.          *)
(*   SpecTTM  lines 138-141 of the page script: dropna, groupby-mean,      *)
(*            sort, rolling(window=4).sum().                               *)
(*   SpecPE   lines 138-191 of the page script: TTM, forward-fill          *)
(*            alignment, P/E, inf/NaN removal, display bounds.             *)
(*                                                                         *)
(* Dates are day numbers.  A float is a pair <<n, d>> in lowest terms with *)
(* d >= 0: d > 0 is the rational n/d, <<0,0>> is NaN, <<1,0>> is +inf and  *)
(* <<-1,0>> is -inf.  Arithmetic is exact (no rounding).                   *)
(***************************************************************************)
EXTENDS Integers, Sequences, FiniteSets, TLC

VARIABLES pc, df, q4_list, combined, ni_df, latest_shares, result,
          eps_data, price_history, eps_df, pe_df, lims, ylim

vars == <<pc, df, q4_list, combined, ni_df, latest_shares, result,
          eps_data, price_history, eps_df, pe_df, lims, ylim>>

secVars == <<df, q4_list, combined, ni_df, latest_shares, result>>
pageVars == <<eps_data, price_history, eps_df, pe_df, lims, ylim>>

----------------------------------------------------------------------------
(* Floats *)

Abs(i) == IF i < 0 THEN -i ELSE i
Sign(i) == IF i > 0 THEN 1 ELSE IF i < 0 THEN -1 ELSE 0

RECURSIVE GCD(_, _)
GCD(a, b) == IF b = 0 THEN a ELSE GCD(b, a % b)

\* n/d in lowest terms, d >= 0; a zero denominator is kept as inf/NaN
Norm(n, d) ==
    IF d = 0 THEN <<Sign(n), 0>>
    ELSE LET s == Sign(d)
             g == GCD(Abs(n), Abs(d))
         IN <<(s * n) \div g, Abs(d) \div g>>

F(i) == <<i, 1>>
NaN == <<0, 0>>
PosInf == <<1, 0>>
NegInf == <<-1, 0>>

IsNaN(x) == x = NaN
IsInf(x) == x[2] = 0 /\ x[1] # 0
IsFinite(x) == x[2] # 0

FNeg(x) == <<-x[1], x[2]>>

FAdd(x, y) ==
    IF IsNaN(x) \/ IsNaN(y) THEN NaN
    ELSE IF IsInf(x) /\ IsInf(y) THEN (IF x = y THEN x ELSE NaN)
    ELSE IF IsInf(x) THEN x
    ELSE IF IsInf(y) THEN y
    ELSE Norm(x[1] * y[2] + y[1] * x[2], x[2] * y[2])

FSub(x, y) == FAdd(x, FNeg(y))

FMul(x, y) == Norm(x[1] * y[1], x[2] * y[2])

\* IEEE division as numpy performs it: x/0 is +-inf, 0/0 and inf/inf are NaN
FDiv(x, y) ==
    IF IsNaN(x) \/ IsNaN(y) THEN NaN
    ELSE IF IsInf(x) /\ IsInf(y) THEN NaN
    ELSE IF IsInf(y) THEN F(0)
    ELSE IF y[1] = 0 THEN <<Sign(x[1]), 0>>
    ELSE Norm(x[1] * y[2] * Sign(y[1]), x[2] * Abs(y[1]))

FAbs(x) == <<Abs(x[1]), x[2]>>

\* x < y; every comparison with NaN is false
FLt(x, y) ==
    IF IsNaN(x) \/ IsNaN(y) THEN FALSE
    ELSE IF IsInf(x) \/ IsInf(y) THEN
        (x = NegInf /\ y # NegInf) \/ (y = PosInf /\ x # PosInf)
    ELSE x[1] * y[2] < y[1] * x[2]

FLe(x, y) == ~IsNaN(x) /\ ~IsNaN(y) /\ ~FLt(y, x)

\* Python's min(list): the first item that no later item is smaller than
RECURSIVE PyMinFrom(_, _, _)
PyMinFrom(s, i, best) ==
    IF i > Len(s) THEN best
    ELSE PyMinFrom(s, i + 1, IF FLt(s[i], best) THEN s[i] ELSE best)

PyMin(s) == PyMinFrom(s, 2, s[1])

\* Python's max(list): the first item that no later item is greater than
RECURSIVE PyMaxFrom(_, _, _)
PyMaxFrom(s, i, best) ==
    IF i > Len(s) THEN best
    ELSE PyMaxFrom(s, i + 1, IF FLt(best, s[i]) THEN s[i] ELSE best)

PyMax(s) == PyMaxFrom(s, 2, s[1])

----------------------------------------------------------------------------
(* get_sec_eps_final, step 5: EPS facts into quarters *)

NoStart == -1
NoFiled == -2
NoDays == -3

\* df['days'] = (df['end'] - df['start']).dt.days ; NaT start gives NaN
Days(end, start) == IF start = NoStart THEN NoDays ELSE end - start

WithDays(eps_raw) ==
    [i \in 1..Len(eps_raw) |->
        [end |-> eps_raw[i].end, filed |-> eps_raw[i].filed,
         val |-> eps_raw[i].val, days |-> Days(eps_raw[i].end, eps_raw[i].start)]]

IsQuarterly(r) == r.days > 60 /\ r.days < 110
IsNineMonth(r) == r.days > 240 /\ r.days < 290
IsAnnual(r) == r.days > 340 /\ r.days < 380

qtrs(d) == SelectSeq(d, IsQuarterly)
y9m(d) == SelectSeq(d, IsNineMonth)
ann(d) == SelectSeq(d, IsAnnual)

MatchTolerance == 12

\* Match with the tolerance taken exclusive of its end points
MatchExclusive(nine, yr) ==
    SelectSeq(nine, LAMBDA m : m.end > yr.end - MatchTolerance
                               /\ m.end < yr.end + MatchTolerance)

\* y9m rows whose end lies within 12 days either side of the annual end
Match(nine, yr) ==
    SelectSeq(nine, LAMBDA m : m.end >= yr.end - MatchTolerance
                               /\ m.end <= yr.end + MatchTolerance)

Q4Val(nine, yr) ==
    LET match == Match(nine, yr)
    IN IF match # <<>> THEN FSub(yr.val, match[1].val) ELSE FDiv(yr.val, F(4))

Q4Days == 90

Q4List(d) ==
    LET a == ann(d)
    IN [i \in 1..Len(a) |->
          [end |-> a[i].end, filed |-> NoFiled,
           val |-> Q4Val(y9m(d), a[i]), days |-> Q4Days]]

----------------------------------------------------------------------------
(* Duplicate resolution *)

\* order of sort_values(['end', 'filed']): a missing 'filed' sorts last
FiledBefore(x, y) == x # NoFiled /\ (y = NoFiled \/ x < y)

SortBefore(a, b) ==
    a.end < b.end \/ (a.end = b.end /\ FiledBefore(a.filed, b.filed))

\* stable insertion: r goes after every row that does not sort after it
RECURSIVE InsertSorted(_, _)
InsertSorted(s, r) ==
    IF s = <<>> THEN <<r>>
    ELSE IF SortBefore(r, s[Len(s)])
         THEN Append(InsertSorted(SubSeq(s, 1, Len(s) - 1), r), s[Len(s)])
         ELSE Append(s, r)

RECURSIVE SortValues(_)
SortValues(s) ==
    IF s = <<>> THEN <<>>
    ELSE InsertSorted(SortValues(SubSeq(s, 1, Len(s) - 1)), s[Len(s)])

\* duplicate resolution left out
KeepDuplicates(s) == s

\* drop_duplicates('end', keep='last')
DropDuplicatesKeepLast(s) ==
    LET keep(i) == \A j \in (i + 1)..Len(s) : s[j].end # s[i].end
        RECURSIVE Build(_)
        Build(i) == IF i > Len(s) THEN <<>>
                    ELSE IF keep(i) THEN <<s[i]>> \o Build(i + 1)
                    ELSE Build(i + 1)
    IN Build(1)

Combined(d, q4) == DropDuplicatesKeepLast(SortValues(qtrs(d) \o q4))

----------------------------------------------------------------------------
(* Step 6: split adjuster *)

common_splits == <<1, 2, 4, 7, 10, 20, 28, 40, 50, 100>>

\* Series.idxmin(): the first position holding the smallest value, NaN
\* skipped; 0 when every value is NaN (idxmin then raises, or gives a
\* label .loc cannot find)
RECURSIVE IdxMinFrom(_, _, _)
IdxMinFrom(keys, i, best) ==
    IF i > Len(keys) THEN best
    ELSE IF IsNaN(keys[i]) THEN IdxMinFrom(keys, i + 1, best)
    ELSE IF best = 0 \/ FLt(keys[i], keys[best]) THEN IdxMinFrom(keys, i + 1, i)
    ELSE IdxMinFrom(keys, i + 1, best)

IdxMin(keys) == IdxMinFrom(keys, 1, 0)

\* ni_match.get('start', ni_match['end']): the column exists when some
\* net-income fact carries a start
HasStartColumn(ni) == \E i \in 1..Len(ni) : ni[i].start # NoStart

\* ni_match['diff'] for one net-income row
NiDiff(ni, n) ==
    IF ~HasStartColumn(ni) THEN F(0)
    ELSE IF n.start = NoStart THEN NaN
    ELSE F(n.end - n.start)

\* positions of ni_df whose end equals the row's end
NiMatch(ni, row) == {i \in 1..Len(ni) : ni[i].end = row.end}

\* lines 79-87: position of the chosen net-income fact, 0 when the lookup
\* raises
NiLookup(ni, row) ==
    IF NiMatch(ni, row) = {}
    THEN IdxMin([i \in 1..Len(ni) |-> F(Abs(ni[i].end - row.end))])
    ELSE IdxMin([i \in 1..Len(ni) |->
                   IF i \in NiMatch(ni, row)
                   THEN FAbs(FSub(NiDiff(ni, ni[i]), F(row.days)))
                   ELSE NaN])

\* line 93
Ratio(ni_val, row, shares) == FDiv(F(shares), FDiv(ni_val, row.val))

\* line 98: min(common_splits, key=lambda x: abs(x - ratio))
RECURSIVE BestSplitFrom(_, _, _)
BestSplitFrom(ratio, i, best) ==
    IF i > Len(common_splits) THEN best
    ELSE BestSplitFrom(ratio, i + 1,
            IF FLt(FAbs(FSub(F(common_splits[i]), ratio)),
                   FAbs(FSub(F(best), ratio)))
            THEN common_splits[i] ELSE best)

\* key=lambda x: abs(x) - ratio, which orders the factors by size
BestSplitSmallest(ratio) == common_splits[1]

BestSplit(ratio) == BestSplitFrom(ratio, 2, common_splits[1])

\* Whether the body of the try block raises.  zeroDivRaises tells whether
\* this build divides by a zero row['val'] as Python floats do
\* (ZeroDivisionError) or as numpy does (inf or NaN).
Raises(row, ni, zeroDivRaises) ==
    \/ NiLookup(ni, row) = 0
    \/ (zeroDivRaises /\ row.val = F(0))

\* adjust_for_split with an except branch that yields no value
adjust_for_split_nan(row, ni, shares, zeroDivRaises) ==
    IF Raises(row, ni, zeroDivRaises) THEN NaN
    ELSE FDiv(row.val, F(BestSplit(Ratio(ni[NiLookup(ni, row)].val, row, shares))))

adjust_for_split(row, ni, shares, zeroDivRaises) ==
    IF Raises(row, ni, zeroDivRaises) THEN row.val
    ELSE FDiv(row.val, F(BestSplit(Ratio(ni[NiLookup(ni, row)].val, row, shares))))

\* lines 104-106: apply, rename, keep Date and Reported EPS
Apply(c, ni, shares, zeroDivRaises) ==
    [i \in 1..Len(c) |->
        [Date |-> c[i].end,
         eps |-> adjust_for_split(c[i], ni, shares, zeroDivRaises)]]

\* sort_index(): stable ascending sort on Date
RECURSIVE InsertByDate(_, _)
InsertByDate(s, r) ==
    IF s = <<>> THEN <<r>>
    ELSE IF r.Date < s[Len(s)].Date
         THEN Append(InsertByDate(SubSeq(s, 1, Len(s) - 1), r), s[Len(s)])
         ELSE Append(s, r)

RECURSIVE SortIndex(_)
SortIndex(s) ==
    IF s = <<>> THEN <<>>
    ELSE InsertByDate(SortIndex(SubSeq(s, 1, Len(s) - 1)), s[Len(s)])

----------------------------------------------------------------------------
(* Page script, lines 138-141: TTM EPS *)

RECURSIVE SumF(_)
SumF(s) == IF s = <<>> THEN F(0) ELSE FAdd(SumF(SubSeq(s, 1, Len(s) - 1)), s[Len(s)])

\* dropna(subset=['Reported EPS'])
DropNaEps(s) == SelectSeq(s, LAMBDA r : ~IsNaN(r.eps))

RECURSIVE AscendingSeq(_)
AscendingSeq(S) ==
    IF S = {} THEN <<>>
    ELSE LET m == CHOOSE x \in S : \A y \in S : x <= y
         IN <<m>> \o AscendingSeq(S \ {m})

EpsOn(s, d) ==
    LET rows == SelectSeq(s, LAMBDA r : r.Date = d)
    IN [i \in 1..Len(rows) |-> rows[i].eps]

\* groupby(index).mean().sort_index(): one row per date, ascending
GroupByMean(s) ==
    LET dates == AscendingSeq({s[i].Date : i \in 1..Len(s)})
    IN [k \in 1..Len(dates) |->
          [Date |-> dates[k],
           eps |-> FDiv(SumF(EpsOn(s, dates[k])), F(Len(EpsOn(s, dates[k]))))]]

RollingWindow == 4

\* rolling sum that reports a value from the first row on (min_periods=1)
RollingSumMinPeriods1(e, i) ==
    LET first == IF i < RollingWindow THEN 1 ELSE i - RollingWindow + 1
    IN SumF([k \in 1..(i - first + 1) |-> e[first + k - 1].eps])

\* rolling sum over the rows dated within the 365 days up to row i
RollingSum365D(e, i) ==
    IF i < RollingWindow THEN NaN
    ELSE LET rows == SelectSeq(SubSeq(e, 1, i), LAMBDA r : r.Date > e[i].Date - 365)
         IN SumF([k \in 1..Len(rows) |-> rows[k].eps])

\* rolling(window=4).sum() at row i: NaN until the window holds 4 rows
RollingSum(e, i) ==
    IF i < RollingWindow THEN NaN
    ELSE SumF([k \in 1..RollingWindow |-> e[i - RollingWindow + k].eps])

EpsDf(data) ==
    LET e == GroupByMean(DropNaEps(data))
    IN [i \in 1..Len(e) |->
          [Date |-> e[i].Date, eps |-> e[i].eps, ttm |-> RollingSum(e, i)]]

----------------------------------------------------------------------------
(* Page script, lines 146-152: alignment and P/E *)

\* forward look-up: the first row dated at or after p (bfill)
ReindexBfill(e, p) ==
    LET later == {i \in 1..Len(e) : e[i].Date >= p}
    IN IF later = {} THEN NaN
       ELSE e[CHOOSE i \in later : \A j \in later : i <= j].ttm

\* reindex(pe_df.index, method='ffill'): the row of the latest date <= p
ReindexFfill(e, p) ==
    LET prior == {i \in 1..Len(e) : e[i].Date <= p}
    IN IF prior = {} THEN NaN
       ELSE e[CHOOSE i \in prior : \A j \in prior : j <= i].ttm

\* the inf replacement of line 151 left out
KeepInf(x) == x

\* replace([np.inf, -np.inf], np.nan)
ReplaceInf(x) == IF IsInf(x) THEN NaN ELSE x

PeDf(price, e) ==
    LET rows == [i \in 1..Len(price) |->
                   [Date |-> price[i].Date,
                    Close |-> ReplaceInf(price[i].Close),
                    TTM_EPS_Mapped |-> ReplaceInf(ReindexFfill(e, price[i].Date)),
                    PE_Ratio |-> ReplaceInf(FDiv(price[i].Close,
                                                 ReindexFfill(e, price[i].Date)))]]
    IN SelectSeq(rows, LAMBDA r : ~IsNaN(r.PE_Ratio))

----------------------------------------------------------------------------
(* Page script, lines 180-191: display bounds *)

RECURSIVE InsertFloat(_, _)
InsertFloat(s, x) ==
    IF s = <<>> THEN <<x>>
    ELSE IF FLt(x, s[Len(s)])
         THEN Append(InsertFloat(SubSeq(s, 1, Len(s) - 1), x), s[Len(s)])
         ELSE Append(s, x)

RECURSIVE SortFloats(_)
SortFloats(s) ==
    IF s = <<>> THEN <<>>
    ELSE InsertFloat(SortFloats(SubSeq(s, 1, Len(s) - 1)), s[Len(s)])

\* Series.quantile(num/den), linear interpolation; NaN for an empty series
Quantile(values, num, den) ==
    IF values = <<>> THEN NaN
    ELSE LET v == SortFloats(values)
             pos == (Len(v) - 1) * num
             lo == pos \div den
             rem == pos % den
         IN IF rem = 0 THEN v[lo + 1]
            ELSE FAdd(v[lo + 1], FMul(FSub(v[lo + 2], v[lo + 1]), Norm(rem, den)))

UpperClamp == 600
LowerClamp == -100

\* lines 180-184: <<maxlim, minlim>> from the 98th and 2nd percentiles
Lims(q98, q02) ==
    LET maxlim0 == PyMin(<<q98, F(UpperClamp)>>)
        minlim0 == PyMax(<<q02, F(LowerClamp)>>)
        maxlim == PyMax(<<maxlim0, minlim0>>)
        minlim == PyMin(<<maxlim, minlim0>>)
    IN <<maxlim, minlim>>

\* lines 188-191: the arguments of set_ylim
YLim(l) ==
    IF FLt(F(0), l[1]) /\ FLt(F(0), l[2]) THEN <<F(0), l[1]>> ELSE <<l[2], l[1]>>

PeValues(pe) == [i \in 1..Len(pe) |-> pe[i].PE_Ratio]

----------------------------------------------------------------------------
(* Inputs of get_sec_eps_final *)

MaxEpsFacts == 2
MaxNiFacts == 2

EndDates == {1000, 1012, 1025}
FiledDates == {1, 2}
ShareCounts == {800, 16000}

\* [end, start, filed, val] records of EarningsPerShareDiluted.  'filed' is
\* read only from quarterly facts (line 70), so the longer periods are
\* enumerated with one filing date.
QuarterlyFacts ==
    {[end |-> e, start |-> e - 90, filed |-> f, val |-> v] :
        e \in EndDates, f \in FiledDates, v \in {F(0), <<1, 2>>}}

NineMonthFacts ==
    {[end |-> e, start |-> e - 270, filed |-> 1, val |-> <<31, 10>>] : e \in EndDates}

AnnualFacts ==
    {[end |-> e, start |-> e - 365, filed |-> 1, val |-> F(4)] : e \in EndDates}

\* a period of exactly 380 days, which no bucket takes
LongFacts ==
    {[end |-> 1000, start |-> 1000 - 380, filed |-> 1, val |-> F(4)]}

EpsFacts == QuarterlyFacts \cup NineMonthFacts \cup AnnualFacts \cup LongFacts

\* [end, start, val] records of NetIncomeLoss: a quarter and a year ending
\* on the same day, a fact without start, and a zero net income
NiFacts ==
    {[end |-> 1000, start |-> 1000 - 90, val |-> F(400)],
     [end |-> 1000, start |-> 1000 - 365, val |-> F(1600)],
     [end |-> 1000, start |-> NoStart, val |-> F(400)],
     [end |-> 1025, start |-> 1025 - 90, val |-> F(0)]}

SeqsUpTo(S, n) == UNION {[1..k -> S] : k \in 1..n}

Empty == <<>>

InitPage ==
    /\ eps_data = Empty /\ price_history = Empty /\ eps_df = Empty
    /\ pe_df = Empty /\ lims = Empty /\ ylim = Empty

\* The state at line 53: the CIK was found, eps_raw and ni_raw are not
\* empty and latest_shares is not zero (lines 28, 39 and 50 return an empty
\* frame otherwise).
Init ==
    /\ pc = "fetched"
    /\ df \in SeqsUpTo(EpsFacts, MaxEpsFacts)
    /\ latest_shares \in ShareCounts
    /\ q4_list = Empty /\ combined = Empty /\ ni_df = Empty /\ result = Empty
    /\ InitPage

\* lines 53-67
ProcessEps ==
    /\ pc = "fetched"
    /\ df' = WithDays(df)
    /\ q4_list' = Q4List(df')
    /\ pc' = "quarters"
    /\ UNCHANGED <<combined, ni_df, latest_shares, result, pageVars>>

\* lines 69-70
ResolveDuplicates ==
    /\ pc = "quarters"
    /\ combined' = Combined(df, q4_list)
    /\ pc' = "resolved"
    /\ UNCHANGED <<df, q4_list, ni_df, latest_shares, result, pageVars>>

\* lines 73-74.  ni_raw is read from the fetched facts here, where it is
\* first used; df and q4_list are not read after line 70 and leave the state.
LoadNetIncome ==
    /\ pc = "resolved"
    /\ \E ni_raw \in SeqsUpTo(NiFacts, MaxNiFacts) : ni_df' = ni_raw
    /\ df' = Empty /\ q4_list' = Empty
    /\ pc' = "net_income"
    /\ UNCHANGED <<combined, latest_shares, result, pageVars>>

\* lines 104-106
SplitAdjust ==
    /\ pc = "net_income"
    /\ \E zeroDivRaises \in BOOLEAN :
          result' = SortIndex(Apply(combined, ni_df, latest_shares, zeroDivRaises))
    /\ pc' = "returned"
    /\ UNCHANGED <<df, q4_list, combined, ni_df, latest_shares, pageVars>>

Next == ProcessEps \/ ResolveDuplicates \/ LoadNetIncome \/ SplitAdjust

Spec == Init /\ [][Next]_vars

----------------------------------------------------------------------------
(* Inputs and steps of the page script *)

MaxTtmRows == 5
MaxEpsRows == 5
MaxPriceRows == 3

InitSec ==
    /\ df = Empty /\ q4_list = Empty /\ combined = Empty /\ ni_df = Empty
    /\ latest_shares = 0 /\ result = Empty

\* rows as get_earnings_dates returns them: latest first, a date may
\* repeat, Reported EPS may be missing
TtmDates == {0, 90, 180, 270, 500}
TtmRows == {[Date |-> d, eps |-> v] : d \in TtmDates, v \in {NaN, F(1), F(2)}}

RECURSIVE LatestFirst(_)
LatestFirst(k) ==
    IF k = 0 THEN {Empty}
    ELSE LET shorter == LatestFirst(k - 1)
         IN shorter \cup
            {Append(p[1], p[2]) :
                p \in {q \in shorter \X TtmRows :
                          /\ Len(q[1]) = k - 1
                          /\ q[1] # Empty => q[2].Date <= q[1][Len(q[1])].Date}}

InitTTM ==
    /\ pc = "page"
    /\ eps_data \in LatestFirst(MaxTtmRows) \ {Empty}
    /\ price_history = Empty
    /\ eps_df = Empty /\ pe_df = Empty /\ lims = Empty /\ ylim = Empty
    /\ InitSec

\* lines 138-141
ComputeTTM ==
    /\ pc = "page"
    /\ eps_df' = EpsDf(eps_data)
    /\ pc' = "ttm"
    /\ UNCHANGED <<eps_data, price_history, pe_df, lims, ylim, secVars>>

NextTTM == ComputeTTM

SpecTTM == InitTTM /\ [][NextTTM]_vars

\* rows as get_sec_eps_final returns them: one per quarter, ascending
EpsSeries ==
    UNION {{[i \in 1..n |-> [Date |-> 90 * i, eps |-> F(v[i])]] : v \in [1..n -> {-1, 0, 1}]} :
              n \in 1..MaxEpsRows}

PriceDates == {45, 360, 400, 460}
Closes == {10, 3000}

PriceSeries ==
    UNION {{[i \in 1..Cardinality(D) |->
                [Date |-> AscendingSeq(D)[i], Close |-> F(c[AscendingSeq(D)[i]])]] :
              c \in [D -> Closes]} :
           D \in {X \in SUBSET PriceDates : X # {} /\ Cardinality(X) <= MaxPriceRows}}

InitPE ==
    /\ pc = "page"
    /\ eps_data \in EpsSeries
    /\ price_history \in PriceSeries
    /\ eps_df = Empty /\ pe_df = Empty /\ lims = Empty /\ ylim = Empty
    /\ InitSec

\* lines 146-152
Align ==
    /\ pc = "ttm"
    /\ pe_df' = PeDf(price_history, eps_df)
    /\ pc' = "aligned"
    /\ UNCHANGED <<eps_data, price_history, eps_df, lims, ylim, secVars>>

\* lines 180-191; set_ylim rejects NaN limits and the handler of line 201
\* reports the error
SelectBounds ==
    /\ pc = "aligned"
    /\ lims' = Lims(Quantile(PeValues(pe_df), 49, 50), Quantile(PeValues(pe_df), 1, 50))
    /\ \/ /\ ~IsNaN(lims'[1]) /\ ~IsNaN(lims'[2])
          /\ ylim' = YLim(lims')
          /\ pc' = "bounded"
       \/ /\ IsNaN(lims'[1]) \/ IsNaN(lims'[2])
          /\ ylim' = ylim
          /\ pc' = "error"
    /\ UNCHANGED <<eps_data, price_history, eps_df, pe_df, secVars>>

NextPE == ComputeTTM \/ Align \/ SelectBounds

SpecPE == InitPE /\ [][NextPE]_vars

----------------------------------------------------------------------------
(* Claims about get_sec_eps_final, checked under Spec *)

Pool == qtrs(df) \o q4_list

Candidates(e) == {i \in 1..Len(Pool) : Pool[i].end = e}

Kept(e) == {i \in 1..Len(combined) : combined[i].end = e}

\* C4 as stated: after duplicate resolution every end_date of the pooled
\* facts has exactly one record, that record is one of the candidates, and
\* whenever a filed native quarterly fact is among the candidates the kept
\* record is a filed one whose filed_date is the most recent of them (a
\* derived Q4 fact, which has no filed_date, does not displace it).
C4_LatestFilingWins ==
    pc = "resolved" =>
        \A e \in {Pool[i].end : i \in 1..Len(Pool)} :
            /\ Cardinality(Kept(e)) = 1
            /\ \A k \in Kept(e) :
                /\ \E i \in Candidates(e) :
                      /\ Pool[i].val = combined[k].val
                      /\ Pool[i].filed = combined[k].filed
                /\ (\E i \in Candidates(e) : Pool[i].filed # NoFiled) =>
                      /\ combined[k].filed # NoFiled
                      /\ \A i \in Candidates(e) :
                            Pool[i].filed # NoFiled => Pool[i].filed <= combined[k].filed

StrictlyAscending(s, key(_)) ==
    \A i \in 1..(Len(s) - 1) : key(s[i]) < key(s[i + 1])

EndOf(r) == r.end
DateOf(r) == r.Date

\* C5: the resolved quarterly series has pairwise distinct, strictly
\* ascending end dates, and so has the series returned after split
\* normalization, which has one record per resolved record.
C5_UniqueAscending ==
    /\ pc \in {"resolved", "net_income", "returned"} =>
          StrictlyAscending(combined, EndOf)
    /\ pc = "returned" =>
          /\ StrictlyAscending(result, DateOf)
          /\ {result[i].Date : i \in 1..Len(result)}
                = {combined[i].end : i \in 1..Len(combined)}

C5_Witness ==
    /\ pc = "returned"
    /\ Len(result) >= 2

AnnualBucket(r) == r.days > 340 /\ r.days < 380
NineMonthBucket(r) == r.days > 240 /\ r.days < 290

\* position in df of the k-th Annual-bucket fact
AnnualAt(k) ==
    CHOOSE i \in 1..Len(df) :
        /\ AnnualBucket(df[i])
        /\ Cardinality({j \in 1..i : AnnualBucket(df[j])}) = k

NineMonthNear(a) ==
    {j \in 1..Len(df) : NineMonthBucket(df[j]) /\ Abs(df[j].end - a.end) <= 12}

\* C6: every Annual-bucket fact yields exactly one derived Q4 fact, with the
\* annual fact's end and 90 days; its value plus a matching nine-month
\* value is the annual value when a nine-month fact ends within 12 days of
\* the annual end, and four times its value is the annual value when none
\* does.
C6_Q4Derivation ==
    pc \in {"quarters", "resolved"} =>
        /\ Len(q4_list) = Cardinality({i \in 1..Len(df) : AnnualBucket(df[i])})
        /\ \A k \in 1..Len(q4_list) :
              LET a == df[AnnualAt(k)]
                  q == q4_list[k]
              IN /\ q.end = a.end
                 /\ q.days = 90
                 /\ IF NineMonthNear(a) # {}
                    THEN \E j \in NineMonthNear(a) : FAdd(q.val, df[j].val) = a.val
                    ELSE FMul(q.val, F(4)) = a.val

\* an annual fact whose nine-month fact ends exactly 12 days away
C6_Witness ==
    /\ pc = "quarters"
    /\ \E k \in 1..Len(q4_list) :
          /\ \E j \in NineMonthNear(df[AnnualAt(k)]) :
                Abs(df[j].end - df[AnnualAt(k)].end) = 12
          /\ q4_list[k].val = <<9, 10>>

\* the net-income lookup of lines 79-87 fails: facts with the row's end
\* exist, the start column exists, and none of those facts has a start
LookupFails(row) ==
    /\ \E i \in 1..Len(ni_df) : ni_df[i].end = row.end
    /\ \E i \in 1..Len(ni_df) : ni_df[i].start # NoStart
    /\ \A i \in 1..Len(ni_df) : ni_df[i].end = row.end => ni_df[i].start = NoStart

Degraded(row) == row.val = F(0) \/ LookupFails(row)

\* C8: a record whose eps_value is zero or whose net-income lookup fails
\* comes back with its original eps_value; the series still has one record
\* per resolved record, and every other record is its eps_value divided by
\* a canonical split factor.
C8_NoOpPerRecord ==
    pc = "returned" =>
        /\ Len(result) = Len(combined)
        /\ \A i \in 1..Len(combined) :
              /\ result[i].Date = combined[i].end
              /\ Degraded(combined[i]) => result[i].eps = combined[i].val
              /\ ~Degraded(combined[i]) =>
                    \E k \in 1..Len(common_splits) :
                        FMul(result[i].eps, F(common_splits[k])) = combined[i].val

\* a failed lookup next to a record that is adjusted by a factor above 1
C8_Witness ==
    /\ pc = "returned"
    /\ \E i, j \in 1..Len(combined) :
          /\ LookupFails(combined[i])
          /\ combined[i].val # F(0)
          /\ ~Degraded(combined[j])
          /\ result[j].eps # combined[j].val

SplitSet == {common_splits[k] : k \in 1..Len(common_splits)}

\* s is a canonical factor nearest to ratio
Nearest(s, ratio) ==
    /\ s \in {1, 2, 4, 7, 10, 20, 28, 40, 50, 100}
    /\ \A t \in {1, 2, 4, 7, 10, 20, 28, 40, 50, 100} :
          ~FLt(FAbs(FSub(F(t), ratio)), FAbs(FSub(F(s), ratio)))

\* current_share_count / (net_income_value / eps_value)
ImpliedRatio(row) ==
    FDiv(F(latest_shares), FDiv(ni_df[NiLookup(ni_df, row)].val, row.val))

\* C9: for a record with non-zero eps and a found net-income value the
\* adjusted EPS is the original EPS divided by a canonical split factor
\* nearest to ratio; ratios 1.97, 19.4 and 1.02 snap to 2, 20 and 1 (the
\* snapping function does not read the state, so the three examples are
\* evaluated once, on entry).
C9_SplitSnapping ==
    /\ pc = "returned" =>
          \A i \in 1..Len(combined) :
              ~Degraded(combined[i]) =>
                  LET ratio == ImpliedRatio(combined[i])
                  IN \E s \in SplitSet :
                        /\ FMul(result[i].eps, F(s)) = combined[i].val
                        /\ Nearest(s, ratio)
    /\ pc = "fetched" =>
          /\ BestSplit(<<197, 100>>) = 2
          /\ BestSplit(<<194, 10>>) = 20
          /\ BestSplit(<<102, 100>>) = 1

\* a record adjusted by a factor that is neither the smallest nor the largest
C9_Witness ==
    /\ pc = "returned"
    /\ \E i \in 1..Len(combined) :
          /\ ~Degraded(combined[i])
          /\ FMul(result[i].eps, F(20)) = combined[i].val

----------------------------------------------------------------------------
(* Claims about the TTM aggregation, checked under SpecTTM *)

\* C1 as stated (min-periods = 1): the TTM value at the first record date
\* is that record's EPS value alone and a TTM value is defined at every
\* record date.
C1_WarmUpMinPeriods1 ==
    pc = "ttm" =>
        /\ eps_df # Empty => eps_df[1].ttm = eps_df[1].eps
        /\ \A i \in 1..Len(eps_df) : ~IsNaN(eps_df[i].ttm)

\* C1 amended (min-periods = 4): a TTM value is defined at a record date
\* exactly when at least three record dates precede it; the first three
\* record dates have none.
C1_WarmUpMinPeriods4 ==
    pc = "ttm" =>
        \A i \in 1..Len(eps_df) :
            IsFinite(eps_df[i].ttm) <=>
                Cardinality({j \in 1..Len(eps_df) : eps_df[j].Date < eps_df[i].Date}) >= 3

\* a series with record dates on both sides of the warm-up
C1_Witness ==
    /\ pc = "ttm"
    /\ Len(eps_df) = 5
    /\ IsNaN(eps_df[1].ttm)
    /\ IsFinite(eps_df[5].ttm)

\* sum of the EPS values dated within the 365 days up to and including d
TimeWindowSum(d) ==
    LET rows == SelectSeq(eps_df, LAMBDA r : r.Date <= d /\ r.Date >= d - 365)
    IN SumF([k \in 1..Len(rows) |-> rows[k].eps])

\* C2 as stated, at the record dates that have a TTM value: the TTM value
\* at d is the sum of exactly the EPS values dated within the 365 days
\* preceding d, inclusive of d.
C2_WindowByTime ==
    pc = "ttm" =>
        \A i \in 1..Len(eps_df) :
            IsFinite(eps_df[i].ttm) => eps_df[i].ttm = TimeWindowSum(eps_df[i].Date)

\* C2 amended: the window is by record count; at every record date with at
\* least three earlier record dates the TTM value is the sum of the EPS
\* values of that date and of the three record dates before it, whatever
\* their spacing.
C2_WindowByCount ==
    pc = "ttm" =>
        \A i \in 4..Len(eps_df) :
            eps_df[i].ttm =
                FAdd(FAdd(eps_df[i - 3].eps, eps_df[i - 2].eps),
                     FAdd(eps_df[i - 1].eps, eps_df[i].eps))

\* four records spanning more than 365 days, with unequal values
C2_Witness ==
    /\ pc = "ttm"
    /\ \E i \in 4..Len(eps_df) :
          /\ eps_df[i].Date - eps_df[i - 3].Date > 365
          /\ IsFinite(eps_df[i].ttm)
          /\ eps_df[i].ttm # TimeWindowSum(eps_df[i].Date)

----------------------------------------------------------------------------
(* Claims about alignment, P/E and display bounds, checked under SpecPE *)

Aligned == pc \in {"aligned", "bounded", "error"}

\* positions of the TTM rows dated at or before p, latest only
LatestAtOrBefore(p) ==
    {i \in 1..Len(eps_df) :
        /\ eps_df[i].Date <= p
        /\ \A j \in 1..Len(eps_df) : eps_df[j].Date <= p => eps_df[j].Date <= eps_df[i].Date}

HasEntry(p) == \E k \in 1..Len(pe_df) : pe_df[k].Date = p

\* C7: every aligned entry is a price row carrying the TTM value of the
\* latest TTM date at or before its date; a price date earlier than the
\* first date with a TTM value has no entry; the aligned series is no
\* longer than the price series.
C7_ForwardFillNoLookAhead ==
    Aligned =>
        /\ Len(pe_df) <= Len(price_history)
        /\ \A k \in 1..Len(pe_df) :
              /\ \E n \in 1..Len(price_history) :
                    /\ price_history[n].Date = pe_df[k].Date
                    /\ price_history[n].Close = pe_df[k].Close
              /\ \E i \in LatestAtOrBefore(pe_df[k].Date) :
                    pe_df[k].TTM_EPS_Mapped = eps_df[i].ttm
        /\ \A n \in 1..Len(price_history) :
              (\A i \in 1..Len(eps_df) :
                  IsFinite(eps_df[i].ttm) => price_history[n].Date < eps_df[i].Date)
              => ~HasEntry(price_history[n].Date)

\* an entry filled forward from an earlier TTM date while a later TTM date
\* holds another value, next to a price date that precedes every TTM value
C7_Witness ==
    /\ pc = "aligned"
    /\ \E k \in 1..Len(pe_df) : \E i, j \in 1..Len(eps_df) :
          /\ i \in LatestAtOrBefore(pe_df[k].Date)
          /\ eps_df[i].Date < pe_df[k].Date
          /\ eps_df[j].Date > pe_df[k].Date
          /\ eps_df[j].ttm # eps_df[i].ttm
    /\ \E n \in 1..Len(price_history) : ~HasEntry(price_history[n].Date)

\* the forward-filled TTM EPS of price date p is zero or unknown
ZeroOrUnknown(p) ==
    \/ LatestAtOrBefore(p) = {}
    \/ \E i \in LatestAtOrBefore(p) : eps_df[i].ttm = F(0) \/ ~IsFinite(eps_df[i].ttm)

\* C10: a price date whose forward-filled TTM EPS is zero or unknown has no
\* aligned entry; every entry has a finite pe_ratio whose product with its
\* non-zero ttm_eps is the close price.
C10_PEExclusion ==
    Aligned =>
        /\ \A n \in 1..Len(price_history) :
              ZeroOrUnknown(price_history[n].Date) => ~HasEntry(price_history[n].Date)
        /\ \A k \in 1..Len(pe_df) :
              /\ IsFinite(pe_df[k].PE_Ratio)
              /\ IsFinite(pe_df[k].TTM_EPS_Mapped)
              /\ pe_df[k].TTM_EPS_Mapped # F(0)
              /\ FMul(pe_df[k].PE_Ratio, pe_df[k].TTM_EPS_Mapped) = pe_df[k].Close

\* a price date with a TTM EPS of zero is dropped while another is kept
C10_Witness ==
    /\ pc = "aligned"
    /\ \E n \in 1..Len(price_history) :
          /\ \E i \in LatestAtOrBefore(price_history[n].Date) : eps_df[i].ttm = F(0)
          /\ ~HasEntry(price_history[n].Date)
    /\ pe_df # Empty

\* C3 as stated: the selected display bounds satisfy upper <= 600,
\* lower >= -100 and lower <= upper.
C3_BoundsClamped ==
    pc = "bounded" =>
        /\ FLe(lims[1], F(600))
        /\ FLe(F(-100), lims[2])
        /\ FLe(lims[2], lims[1])
        /\ FLe(ylim[2], F(600))
        /\ FLe(F(-100), ylim[1])
        /\ FLe(ylim[1], ylim[2])

====
